---- MODULE Spec2Model ----
(***************************************************************************)
(* Model of the servicefile crate (src/src/lib.rs): the line parser        *)
(* ServiceEntry::from_str and the file aggregator parse_file.              *)
(*                                                                         *)
(* A string is a sequence of characters.  A character is written as a      *)
(* one-letter TLA+ string, except "NEL", which stands for U+0085 NEXT      *)
(* LINE: a character that char::is_whitespace accepts and that UTF-8       *)
(* encodes in two bytes.  Byte offsets and character counts are kept       *)
(* apart, as Rust's str slicing keeps them apart.                          *)
(***************************************************************************)
EXTENDS Integers, Sequences, FiniteSets, TLC

VARIABLES
    \* ---- one call of parse_file(path, ignore_errs) ----
    path,         \* what the path names: "missing", "dir" or "file"
    openable,     \* whether File::open succeeds on it
    file,         \* what BufReader::lines() yields: a sequence of read results
    ignore_errs,  \* the ignore_errs argument
    pc,           \* position in parse_file: "check", "open", "lines", "done"
    idx,          \* number of read results consumed by the for loop
    entries,      \* the local Vec<ServiceEntry>
    result,       \* what the call produced (ResNone until it ends)
    parsed,       \* history: indices of the lines handed to from_str
    \* ---- one call of ServiceEntry::from_str(s) ----
    s,            \* the argument
    lpc,          \* "off", "call" or "ret"
    out           \* what from_str produced (OutNone until it returns)

vars == <<path, openable, file, ignore_errs, pc, idx, entries, result, parsed,
          s, lpc, out>>

fileVars == <<path, openable, file, ignore_errs, pc, idx, entries, result, parsed>>
lineVars == <<s, lpc, out>>

----------------------------------------------------------------------------
(* Bounds of the model *)

MaxLines == 3       \* read results in a file
MaxLineLen == 5     \* length of the exhaustively enumerated from_str arguments
UsizeBits == 16     \* width of usize: the narrowest pointer width Rust targets
                    \* have, so that port overflow is reachable with short digit
                    \* strings (the code runs the same checked arithmetic at 32
                    \* and 64 bits)

USIZE_MAX == 2^UsizeBits - 1

----------------------------------------------------------------------------
(* Error messages: the &'static str values of the source *)

MalformedInput == "Malformed input"
MissingPortProtocolField == "Could not find port and protocol field"
MalformedPort == "Malformed port"
MissingProtocolField == "Could not find protocol"
InvalidSource == "File does not exist or is not a regular file"
OpenFailed == "Could not open file"
ReadFailed == "Error reading file"

----------------------------------------------------------------------------
(* Characters and strings *)

\* char::is_whitespace, on the characters of the model
is_whitespace(c) == c \in {" ", "NEL"}

\* length of the UTF-8 encoding of a character
len_utf8(c) == IF c = "NEL" THEN 2 ELSE 1

\* byte offset at which the character after the first n characters starts
RECURSIVE byte_offset(_, _)
byte_offset(str, n) ==
    IF n = 0 THEN 0 ELSE byte_offset(str, n - 1) + len_utf8(str[n])

\* str::is_char_boundary
is_char_boundary(str, b) == \E n \in 0..Len(str) : byte_offset(str, n) = b

\* &str[b..] for a byte offset b on a character boundary
slice_from(str, b) ==
    LET n == CHOOSE k \in 0..Len(str) : byte_offset(str, k) = b
    IN  SubSeq(str, n + 1, Len(str))

\* number of whitespace characters at the start of a string
RECURSIVE leading_ws(_)
leading_ws(str) ==
    IF str = <<>> \/ ~is_whitespace(str[1]) THEN 0 ELSE 1 + leading_ws(Tail(str))

\* discard_ws: walks the characters from byte start_idx and adds ONE to the
\* index per whitespace character, whatever the character's encoded length
discard_ws(input, start_idx) ==
    start_idx + leading_ws(slice_from(input, start_idx))

\* is_comment: the first character is '#'
is_comment(str) == str # <<>> /\ str[1] = "#"

\* str::split_whitespace, collected: the maximal whitespace-free runs
RECURSIVE split_ws_from(_, _)
split_ws_from(str, cur) ==
    IF str = <<>> THEN (IF cur = <<>> THEN <<>> ELSE <<cur>>)
    ELSE IF is_whitespace(str[1])
         THEN (IF cur = <<>> THEN <<>> ELSE <<cur>>) \o split_ws_from(Tail(str), <<>>)
         ELSE split_ws_from(Tail(str), Append(cur, str[1]))

split_whitespace(str) == split_ws_from(str, <<>>)

\* str::split("/"), collected: the segments between EVERY '/', empty ones kept
RECURSIVE split_slash_from(_, _)
split_slash_from(str, cur) ==
    IF str = <<>> THEN <<cur>>
    ELSE IF str[1] = "/"
         THEN <<cur>> \o split_slash_from(Tail(str), <<>>)
         ELSE split_slash_from(Tail(str), Append(cur, str[1]))

split_slash(str) == split_slash_from(str, <<>>)

----------------------------------------------------------------------------
(* str::parse::<usize>() *)

Digits == {"0", "1", "2", "3", "4", "5", "6", "7", "8", "9"}

digit_val(c) ==
    CASE c = "0" -> 0 [] c = "1" -> 1 [] c = "2" -> 2 [] c = "3" -> 3
      [] c = "4" -> 4 [] c = "5" -> 5 [] c = "6" -> 6 [] c = "7" -> 7
      [] c = "8" -> 8 [] c = "9" -> 9

ParseOk(v) == [ok |-> TRUE, val |-> v]
ParseErr == [ok |-> FALSE, val |-> 0]

\* the digit loop: checked_mul(10) then checked_add(digit)
RECURSIVE accumulate(_, _)
accumulate(ds, acc) ==
    IF ds = <<>> THEN ParseOk(acc)
    ELSE IF ds[1] \notin Digits THEN ParseErr
    ELSE IF acc * 10 > USIZE_MAX THEN ParseErr
    ELSE IF acc * 10 + digit_val(ds[1]) > USIZE_MAX THEN ParseErr
    ELSE accumulate(Tail(ds), acc * 10 + digit_val(ds[1]))

\* usize::from_str: empty fails; a lone sign fails; one leading '+' is
\* dropped; '-' is no digit of an unsigned type
parse_usize(src) ==
    IF src = <<>> THEN ParseErr
    ELSE IF Len(src) = 1 /\ src[1] \in {"+", "-"} THEN ParseErr
    ELSE accumulate(IF src[1] = "+" THEN Tail(src) ELSE src, 0)

----------------------------------------------------------------------------
(* ServiceEntry::from_str *)

NoEntry == [name |-> <<>>, port |-> 0, protocol |-> <<>>, aliases |-> <<>>]

OutNone == [kind |-> "None", msg |-> "", entry |-> NoEntry]
OutOk(e) == [kind |-> "Ok", msg |-> "", entry |-> e]
OutErr(m) == [kind |-> "Err", msg |-> m, entry |-> NoEntry]
OutPanic == [kind |-> "Panic", msg |-> "", entry |-> NoEntry]

\* the alias loop: push tokens until one begins with '#'
RECURSIVE take_aliases(_)
take_aliases(toks) ==
    IF toks = <<>> THEN <<>>
    ELSE IF toks[1][1] = "#" THEN <<>>
    ELSE <<toks[1]>> \o take_aliases(Tail(toks))

\* from_str with the protocol checks moved before the port is parsed
from_str_protocol_first(str) ==
    LET service == split_whitespace(str) IN
    IF service = <<>> THEN OutPanic
    ELSE IF is_comment(service[1]) THEN OutErr(MalformedInput)
    ELSE IF Len(service) < 2 THEN OutErr(MissingPortProtocolField)
    ELSE
      LET port_and_protocol == split_slash(service[2])
          port == port_and_protocol[1]
      IN
      IF is_comment(port) THEN OutErr(MissingPortProtocolField)
      ELSE IF Len(port_and_protocol) < 2 THEN OutErr(MissingProtocolField)
      ELSE IF is_comment(port_and_protocol[2]) THEN OutErr(MissingProtocolField)
      ELSE IF ~parse_usize(port).ok THEN OutErr(MalformedPort)
      ELSE OutOk([name |-> service[1],
                  port |-> parse_usize(port).val,
                  protocol |-> port_and_protocol[2],
                  aliases |-> take_aliases(SubSeq(service, 3, Len(service)))])

from_str(str) ==
    LET service == split_whitespace(str) IN
    IF service = <<>> THEN OutPanic                      \* name.unwrap() on None
    ELSE IF is_comment(service[1]) THEN OutErr(MalformedInput)
    ELSE IF Len(service) < 2 THEN OutErr(MissingPortProtocolField)
    ELSE
      LET port_and_protocol == split_slash(service[2])
          port == port_and_protocol[1]
      IN
      IF is_comment(port) THEN OutErr(MissingPortProtocolField)
      ELSE IF ~parse_usize(port).ok THEN OutErr(MalformedPort)
      ELSE IF Len(port_and_protocol) < 2 THEN OutErr(MissingProtocolField)
      ELSE IF is_comment(port_and_protocol[2]) THEN OutErr(MissingProtocolField)
      ELSE OutOk([name |-> service[1],
                  port |-> parse_usize(port).val,
                  protocol |-> port_and_protocol[2],
                  aliases |-> take_aliases(SubSeq(service, 3, Len(service)))])

----------------------------------------------------------------------------
(* parse_file *)

ResNone == [kind |-> "None", msg |-> "", entries |-> <<>>]
ResOk(es) == [kind |-> "Ok", msg |-> "", entries |-> es]
ResErr(m) == [kind |-> "Err", msg |-> m, entries |-> <<>>]
ResPanic == [kind |-> "Panic", msg |-> "", entries |-> <<>>]

\* one item of BufReader::lines(): Err(io::Error), or Ok(line)
ReadErr == [err |-> TRUE, line |-> <<>>]
ReadLine(l) == [err |-> FALSE, line |-> l]

\* What one iteration of the for loop does with a line that was read:
\*   "panic"  the slice &line[start..] is off a character boundary, or
\*            from_str unwraps a missing first token
\*   "skip"   continue (comment, empty, or an ignored parse error)
\*   "push"   entries.push(entry)
\*   "return" return Err(msg)
\* called: whether from_str was invoked on the line.
Step(a, m, e, c) == [act |-> a, msg |-> m, entry |-> e, called |-> c]

line_body(line, ignore) ==
    LET start == discard_ws(line, 0) IN
    IF ~is_char_boundary(line, start) THEN Step("panic", "", NoEntry, FALSE)
    ELSE
      LET entryline == slice_from(line, start) IN
      IF entryline = <<>> THEN Step("skip", "", NoEntry, FALSE)
      ELSE IF entryline[1] = "#" THEN Step("skip", "", NoEntry, FALSE)
      ELSE
        LET r == from_str(entryline) IN
        CASE r.kind = "Ok" -> Step("push", "", r.entry, TRUE)
          [] r.kind = "Err" ->
               IF ~ignore THEN Step("return", r.msg, NoEntry, TRUE)
               ELSE Step("skip", "", NoEntry, TRUE)
          [] OTHER -> Step("panic", "", NoEntry, TRUE)

\* loop_body with the read error treated like a parse error: dropped under
\* ignore_errs
loop_body_tolerant(item, ignore) ==
    IF item.err
    THEN (IF ignore THEN Step("skip", "", NoEntry, FALSE)
          ELSE Step("return", ReadFailed, NoEntry, FALSE))
    ELSE line_body(item.line, ignore)

\* the body of `for line in lines`: a read error returns at once
loop_body(item, ignore) ==
    IF item.err THEN Step("return", ReadFailed, NoEntry, FALSE)
    ELSE line_body(item.line, ignore)

\* lines 116-118: the path must exist and be a regular file
CheckPath ==
    /\ pc = "check"
    /\ IF path # "file"
       THEN result' = ResErr(InvalidSource) /\ pc' = "done"
       ELSE result' = result /\ pc' = "open"
    /\ UNCHANGED <<path, openable, file, ignore_errs, idx, entries, parsed, lineVars>>

\* lines 120-128: File::open, then the empty Vec and the line iterator
OpenFile ==
    /\ pc = "open"
    /\ IF ~openable
       THEN result' = ResErr(OpenFailed) /\ pc' = "done"
       ELSE result' = result /\ pc' = "lines"
    /\ entries' = <<>>
    /\ UNCHANGED <<path, openable, file, ignore_errs, idx, parsed, lineVars>>

\* lines 129-159: one iteration of the loop
NextLine ==
    /\ pc = "lines"
    /\ idx < Len(file)
    /\ LET st == loop_body(file[idx + 1], ignore_errs) IN
       /\ idx' = idx + 1
       /\ parsed' = IF st.called THEN Append(parsed, idx + 1) ELSE parsed
       /\ entries' = IF st.act = "push" THEN Append(entries, st.entry) ELSE entries
       /\ result' = CASE st.act = "return" -> ResErr(st.msg)
                      [] st.act = "panic" -> ResPanic
                      [] OTHER -> result
       /\ pc' = IF st.act \in {"return", "panic"} THEN "done" ELSE "lines"
    /\ UNCHANGED <<path, openable, file, ignore_errs, lineVars>>

\* line 161: the iterator is exhausted
Return ==
    /\ pc = "lines"
    /\ idx = Len(file)
    /\ result' = ResOk(entries)
    /\ pc' = "done"
    /\ UNCHANGED <<path, openable, file, ignore_errs, idx, entries, parsed, lineVars>>

----------------------------------------------------------------------------
(* Inputs of parse_file *)

L_empty == <<>>
L_comment == <<" ", "#", "c">>
L_good == <<"a", " ", "1", "/", "t">>
L_alias == <<" ", "b", " ", "2", "/", "u", " ", "c", " ", "#", "d">>
L_noport == <<"a">>
L_badport == <<"a", " ", "a", "/">>
L_noproto == <<"a", " ", "1", "/">>
L_nel == <<"NEL">>
L_nel2 == <<"NEL", "NEL">>
L_nel2comment == <<"NEL", "NEL", "#">>
L_nelgood == <<"NEL", "a", " ", "1", "/", "t">>

FileLines ==
    { L_empty, L_comment, L_good, L_alias, L_noport, L_badport, L_noproto,
      L_nel, L_nel2, L_nel2comment, L_nelgood }

FileItems == {ReadLine(l) : l \in FileLines} \cup {ReadErr}

Files == UNION {[1..n -> FileItems] : n \in 0..MaxLines}

Init ==
    /\ path \in {"missing", "dir", "file"}
    /\ openable \in (IF path = "file" THEN BOOLEAN ELSE {FALSE})
    \* what lines() yields once the path is opened; a missing path has nothing
    /\ file \in (IF path = "missing" THEN {<<>>} ELSE Files)
    /\ ignore_errs \in BOOLEAN
    /\ pc = "check"
    /\ idx = 0
    /\ entries = <<>>
    /\ result = ResNone
    /\ parsed = <<>>
    /\ s = <<>> /\ lpc = "off" /\ out = OutNone

Next == CheckPath \/ OpenFile \/ NextLine \/ Return

Spec == Init /\ [][Next]_vars

----------------------------------------------------------------------------
(* Inputs of from_str *)

LineAlphabet == {"a", "1", "#", "/", "+", " "}

ShortLines == UNION {[1..n -> LineAlphabet] : n \in 0..MaxLineLen}

PortTexts ==
    { <<>>, <<"1">>, <<"0", "1">>, <<"+", "1">>, <<"-", "1">>, <<"+">>,
      <<"1", "a">>, <<"#", "1">>, <<"1", "#">>,
      <<"6", "5", "5", "3", "5">>, <<"9", "9", "9", "9", "9", "9">> }

ProtoTails ==
    { <<>>, <<"/">>, <<"/", "t">>, <<"/", "#">>, <<"/", "#", "t">>,
      <<"/", "t", "/", "u">>, <<"/", "t", "/">>, <<"/", "/", "t">> }

Rests ==
    { <<>>, <<" ", "b">>, <<" ", "b", "NEL", "c">>, <<" ", "#", "c">>,
      <<" ", "b", " ", "#", "c", " ", "d">>, <<"#", "c">>,
      <<" ", "b", "#", "c">>, <<" ", "#", " ", "b">> }

GenLines ==
    { <<"a", " ">> \o p \o t \o r : p \in PortTexts, t \in ProtoTails, r \in Rests }

Lines == ShortLines \cup GenLines

InitLine ==
    /\ s \in Lines
    /\ lpc = "call"
    /\ out = OutNone
    /\ path = "file" /\ openable = TRUE /\ file = <<>> /\ ignore_errs = FALSE
    /\ pc = "off" /\ idx = 0 /\ entries = <<>> /\ parsed = <<>>
    /\ result = ResNone

ParseLine ==
    /\ lpc = "call"
    /\ out' = from_str(s)
    /\ lpc' = "ret"
    /\ UNCHANGED <<s, fileVars>>

NextLineSpec == ParseLine

SpecLine == InitLine /\ [][NextLineSpec]_vars

----------------------------------------------------------------------------
(* Vocabulary of the properties *)

Range(f) == {f[i] : i \in DOMAIN f}

\* position of the first '/' of a token, 0 when it has none
FirstSlash(tok) ==
    IF \E i \in 1..Len(tok) : tok[i] = "/"
    THEN CHOOSE i \in 1..Len(tok) : tok[i] = "/" /\ \A j \in 1..(i - 1) : tok[j] # "/"
    ELSE 0

\* the text before the first '/' (the whole token when it has none)
PortText(tok) ==
    IF FirstSlash(tok) = 0 THEN tok ELSE SubSeq(tok, 1, FirstSlash(tok) - 1)

\* the text after the first '/'
AfterSlash(tok) ==
    IF FirstSlash(tok) = 0 THEN <<>> ELSE SubSeq(tok, FirstSlash(tok) + 1, Len(tok))

IsDecimal(txt) == txt # <<>> /\ \A i \in 1..Len(txt) : txt[i] \in Digits

RECURSIVE DecimalValue(_)
DecimalValue(txt) ==
    IF txt = <<>> THEN 0
    ELSE DecimalValue(SubSeq(txt, 1, Len(txt) - 1)) * 10 + digit_val(txt[Len(txt)])

\* a non-empty digit sequence whose value fits usize
FitsPort(txt) == IsDecimal(txt) /\ DecimalValue(txt) <= USIZE_MAX

HasHash(txt) == \E i \in 1..Len(txt) : txt[i] = "#"

\* the tokens of the from_str argument
Toks == split_whitespace(s)

\* the line with its leading whitespace characters removed
Stripped(line) == SubSeq(line, leading_ws(line) + 1, Len(line))

\* a blank line or a comment line
Skippable(line) == Stripped(line) = <<>> \/ Stripped(line)[1] = "#"

----------------------------------------------------------------------------
(* Properties of ServiceEntry::from_str, under SpecLine *)

\* C4: every entry from_str returns has a name and a protocol that are
\* non-empty and do not begin with '#'.
C4_NameAndProtocolPresent ==
    (lpc = "ret" /\ out.kind = "Ok") =>
        /\ out.entry.name # <<>> /\ ~is_comment(out.entry.name)
        /\ out.entry.protocol # <<>> /\ ~is_comment(out.entry.protocol)

\* C5: a line whose second token is a valid decimal port followed by '/' and
\* nothing else fails with "Could not find protocol" and builds no entry.
C5_TrailingSlashRejected ==
    (/\ lpc = "ret"
     /\ Len(Toks) >= 2
     /\ ~is_comment(Toks[1])
     /\ FirstSlash(Toks[2]) = Len(Toks[2])
     /\ FitsPort(PortText(Toks[2])))
    => out = OutErr(MissingProtocolField)

\* C6: once the port text is reached, it is accepted exactly when it is a
\* non-empty sequence of decimal digits whose value fits usize (a sign, an
\* empty text, a non-digit or an overflow gives "Malformed port"), and an
\* accepted port is the decimal value of the digits.
C6_PortDigitsOnly ==
    (/\ lpc = "ret"
     /\ Len(Toks) >= 2
     /\ ~is_comment(Toks[1])
     /\ ~is_comment(PortText(Toks[2])))
    => /\ (out = OutErr(MalformedPort)) <=> ~FitsPort(PortText(Toks[2]))
       /\ out.kind = "Ok" =>
            /\ FitsPort(PortText(Toks[2]))
            /\ out.entry.port = DecimalValue(PortText(Toks[2]))

\* The part of a line before its first '#': the fields of a well-formed entry
\* whose trailing comment starts at that '#'.
RECURSIVE BeforeComment(_)
BeforeComment(line) ==
    IF line = <<>> \/ line[1] = "#" THEN <<>>
    ELSE <<line[1]>> \o BeforeComment(Tail(line))

Fields(line) == split_whitespace(BeforeComment(line))

\* Entry := WS* Name WS+ Port '/' Protocol (WS+ Alias)* (WS* Comment)?
WellFormedEntry(line) ==
    /\ Len(Fields(line)) >= 2
    /\ FirstSlash(Fields(line)[2]) > 0
    /\ FitsPort(PortText(Fields(line)[2]))
    /\ AfterSlash(Fields(line)[2]) # <<>>

\* C7: on a well-formed entry line, whose trailing comment may follow the
\* last field without whitespace, from_str succeeds, the aliases are the alias
\* tokens in order, and no field holds the '#' of the comment or text after it.
C7_WellFormedParsed ==
    (lpc = "ret" /\ WellFormedEntry(s)) =>
        /\ out.kind = "Ok"
        /\ out.entry.aliases = SubSeq(Fields(s), 3, Len(Fields(s)))
        /\ ~HasHash(out.entry.protocol)
        /\ \A i \in 1..Len(out.entry.aliases) : ~HasHash(out.entry.aliases[i])

\* The error the ordered checks of C8 give for a token list, "" for none.
ExpectedError(toks) ==
    IF is_comment(toks[1]) THEN MalformedInput
    ELSE IF Len(toks) < 2 THEN MissingPortProtocolField
    ELSE IF is_comment(PortText(toks[2])) THEN MissingPortProtocolField
    ELSE IF ~parse_usize(PortText(toks[2])).ok THEN MalformedPort
    ELSE IF FirstSlash(toks[2]) = 0 THEN MissingProtocolField
    ELSE IF is_comment(AfterSlash(toks[2])) THEN MissingProtocolField
    ELSE ""

\* C8: the checks apply in the order (1) first token begins with '#',
\* (2) no second token or port portion begins with '#', (3) port portion not
\* parseable, (4) no '/' or protocol portion begins with '#'; the first that
\* fails decides the one error, and tokens after the second never change it.
C8_ErrorOrder ==
    (lpc = "ret" /\ Toks # <<>>) =>
        /\ out.kind \in {"Ok", "Err"}
        /\ out.msg = ExpectedError(Toks)
        /\ out.kind = "Err" <=> ExpectedError(Toks) # ""
        /\ Len(Toks) >= 2 =>
             from_str(Toks[1] \o <<" ">> \o Toks[2]).msg = out.msg

\* from_str has answered "Malformed port" for a line whose second token ends
\* in '/' (no protocol) and is followed by a further token
C8_Witness ==
    /\ lpc = "ret"
    /\ out = OutErr(MalformedPort)
    /\ Len(Toks) >= 3
    /\ FirstSlash(Toks[2]) = Len(Toks[2])

\* C10: the second token is split at its first '/' only: the port is parsed
\* from the text before it and the protocol is all the text after it.
C10_SplitAtFirstSlash ==
    (lpc = "ret" /\ out.kind = "Ok") =>
        /\ parse_usize(PortText(Toks[2])) = ParseOk(out.entry.port)
        /\ out.entry.protocol = AfterSlash(Toks[2])

----------------------------------------------------------------------------
(* Properties of parse_file, under Spec *)

\* the smallest element of a non-empty set of numbers
Min(S) == CHOOSE m \in S : \A k \in S : m <= k

\* the lines of the file that from_str rejects
Rejected ==
    { i \in 1..Len(file) :
        /\ ~file[i].err
        /\ ~Skippable(file[i].line)
        /\ from_str(file[i].line).kind = "Err" }

\* C1: with ignore_errs = false, when some non-blank, non-comment line is
\* rejected by from_str, the call returns the error of the first such line, no
\* entries, and hands no later line to from_str.
C1_FirstErrorAborts ==
    (/\ pc = "done"
     /\ ~ignore_errs
     /\ path = "file" /\ openable
     /\ Rejected # {}
     /\ \A j \in 1..Min(Rejected) : ~file[j].err)
    => /\ result = ResErr(from_str(file[Min(Rejected)].line).msg)
       /\ \A k \in Range(parsed) : k <= Min(Rejected)

\* the entries from_str builds for the lines it accepts, in line order
RECURSIVE Accepted(_)
Accepted(items) ==
    IF items = <<>> THEN <<>>
    ELSE (IF from_str(items[1].line).kind = "Ok"
          THEN <<from_str(items[1].line).entry>> ELSE <<>>)
         \o Accepted(Tail(items))

\* C2: with ignore_errs = true on a regular file that opens and reads without
\* fault, the call returns exactly the entries of the lines from_str accepts,
\* in line order, and never an error.
C2_IgnoreKeepsAccepted ==
    (/\ pc = "done"
     /\ ignore_errs
     /\ path = "file" /\ openable
     /\ \A i \in 1..Len(file) : ~file[i].err)
    => result = ResOk(Accepted(file))

\* C3: a line that is empty or a comment once its leading whitespace is
\* removed is never handed to from_str, and the call neither fails nor aborts
\* on it, whatever ignore_errs is.
C3_BlankAndCommentSkipped ==
    \A i \in 1..idx :
        (~file[i].err /\ Skippable(file[i].line)) =>
            /\ i \notin Range(parsed)
            /\ ~(i = idx /\ pc = "done" /\ result.kind \in {"Err", "Panic"})

\* C9: a path that is missing or no regular file gives InvalidSource before
\* any line is read or parsed; a failed open gives OpenFailed; a read failure
\* ends the call at once with ReadFailed, for both values of ignore_errs.
C9_IoFailuresAbort ==
    /\ (pc = "done" /\ path # "file") =>
          result = ResErr(InvalidSource) /\ idx = 0 /\ parsed = <<>>
    /\ (pc = "done" /\ path = "file" /\ ~openable) =>
          result = ResErr(OpenFailed) /\ idx = 0 /\ parsed = <<>>
    /\ \A i \in 1..idx :
          file[i].err => (i = idx /\ pc = "done" /\ result = ResErr(ReadFailed))

\* a read failure has ended a call that ran with ignore_errs = true and had
\* already accumulated an entry
C9_Witness ==
    /\ pc = "done"
    /\ ignore_errs
    /\ idx > 1
    /\ file[idx].err
    /\ entries # <<>>
    /\ result = ResErr(ReadFailed)

====
